---- MODULE Spec2Model ----
\* A model of server.py: the start-up of the two client handles and the three
\* request handlers (run_function, upload_python_file, list_objects), with the
\* object store, the local temporary directories and the sandbox engine as the
\* environment.
EXTENDS Integers, Sequences, FiniteSets, TLC

\* ------------------------------------------------------------------ bounds
\* Number of /run requests the model follows (each is served by its own thread).
NInv == 2
\* Number of directory names tempfile.mkdtemp can draw from.
NNames == 2
\* Number of /upload requests that reach the store.
MaxUploads == 2

Inv == 1..NInv
Names == 1..NNames

\* ------------------------------------------------------------------ values
None == "None"
Handle == "handle"

\* Bytes are sequences of byte values, text is a sequence of characters or of
\* whole message strings.  104 = "h", 101 = "e", 255 is no valid UTF-8.
Chr(b) == IF b = 104 THEN "h" ELSE IF b = 101 THEN "e" ELSE "?"
\* bytes.decode("utf-8") succeeds exactly on valid input (lines 109, 117, 118).
DecodeOk(bs) == \A k \in DOMAIN bs : bs[k] < 128
Decode(bs) == [k \in DOMAIN bs |-> Chr(bs[k])]

\* An artifact's bytes are represented by what the fixed command
\* ["python", "/app/script.py"] does when it runs them: its exit code and what
\* it writes to stdout and to stderr.
Artifact(x, o, e) == [exit |-> x, out |-> o, err |-> e]
Hello == Artifact(0, <<104>>, <<>>)
Warn == Artifact(0, <<104>>, <<101>>)
Crash == Artifact(1, <<104>>, <<101>>)
Binary == Artifact(0, <<255>>, <<>>)
\* The contents the uploads of the model carry.
Artifacts == {Hello, Binary}
\* The two non-contents a staged file can have.
NoFile == Artifact(-1, <<>>, <<>>)
Partial == Artifact(-2, <<>>, <<>>)

\* Declared filenames of uploads, as character sequences.
DotPy == <<".", "p", "y">>
Filenames == { <<>>, <<"a">> \o DotPy, <<"a", ".", "t", "x", "t">>, <<"a">> \o DotPy \o <<"c">> }

\* str.endswith (line 227).
EndsWith(s, suf) ==
    /\ Len(s) >= Len(suf)
    /\ SubSeq(s, Len(s) - Len(suf) + 1, Len(s)) = suf

\* A key that no upload ever produced (uuid part 0 is never generated).
MissingKey == <<0, <<"n">>>>

\* What the store may hold when the server starts: objects of earlier uploads
\* (their uuid parts are not generated again).
OldKey1 == <<-1, <<"a">> \o DotPy>>
OldKey2 == <<-2, <<"a">> \o DotPy>>
StoreCases == { (OldKey1 :> Hello) @@ (OldKey2 :> Crash),
                (OldKey1 :> Warn) }

\* ------------------------------------------------------------------ state
VARIABLES
    boot,           \* what module initialization met: credentials, swift, docker
    swift_conn,     \* line 31
    docker_client,  \* line 32
    store,          \* the objects of DEFAULT_CONTAINER_NAME: key -> bytes
    uuids,          \* how many uuid4 values have been generated
    dirOwner,       \* the directories under the temp root: name -> request that made it, 0 = absent
    files,          \* <dir>/script.py for each directory name
    req,            \* the /run requests: position and locals of each
    lastUpload,     \* the last /upload request and its response
    uploaded,       \* the keys the 201 responses of /upload returned, in order
    lastList        \* the last /list-objects response

vars == <<boot, swift_conn, docker_client, store, uuids, dirOwner, files, req,
          lastUpload, uploaded, lastList>>

\* ------------------------------------------------------------------ responses
\* A response: the HTTP status, which "error" text the body carries, the text
\* str(e) interpolated into it, and the stdout/stderr members when present.
Response(st, er, dt, hs, so, se) ==
    [status |-> st, error |-> er, detail |-> dt, hasStreams |-> hs, stdout |-> so, stderr |-> se]
NoResp == Response(0, "", "", FALSE, <<>>, <<>>)
\* lines 135-142
RespNotInitialized == Response(503, "Server not fully initialized", "", FALSE, <<>>, <<>>)
\* lines 155-162
RespDownloadFailed == Response(500, "Failed to download code", "", FALSE, <<>>, <<>>)
\* lines 169-178
RespExecFailed(cls, so, se) == Response(500, "Execution failed", cls, TRUE, so, se)
\* lines 180-189
RespSuccess(so, se) == Response(200, "", "", TRUE, so, se)
\* lines 191-193
RespConnectionError(what) == Response(503, "ConnectionError", what, FALSE, <<>>, <<>>)
\* lines 194-199
RespInternal(cls) == Response(500, "An internal server error occurred", cls, FALSE, <<>>, <<>>)
\* An exception that leaves the handler (mkdtemp at line 149 is outside the
\* try): the framework answers 500 without a body of the handler's.
RespUnhandled == Response(500, "unhandled", "OSError", FALSE, <<>>, <<>>)

\* ------------------------------------------------------------------ start-up
\* An except clause that resets the engine handle only.
StartupHandles_KeepsSwift(creds, swiftCtor, dockerEnv) ==
    IF creds = "present" /\ swiftCtor = "raises"
    THEN [swift |-> None, docker |-> None]
    ELSE IF dockerEnv = "raises"
    THEN [swift |-> IF creds = "present" THEN Handle ELSE None, docker |-> None]
    ELSE [swift |-> IF creds = "present" THEN Handle ELSE None, docker |-> Handle]

\* Lines 31-60.  creds: whether all four OS_* variables are set; swiftCtor:
\* whether swiftclient.Connection(...) returns or raises; dockerEnv: whether
\* docker.from_env() and ping() return or raise.
StartupHandles(creds, swiftCtor, dockerEnv) ==
    IF creds = "present" /\ swiftCtor = "raises"
    THEN [swift |-> None, docker |-> None]
    ELSE IF dockerEnv = "raises"
    THEN [swift |-> None, docker |-> None]
    ELSE [swift |-> IF creds = "present" THEN Handle ELSE None, docker |-> Handle]

\* errStdout: whether the ContainerError of the installed engine library has a
\* stdout attribute (line 117 reads it); it is a fact of the build, the same
\* for every request, "unread" until the first handler of a ContainerError
\* reads it.
BootCases ==
    { [creds |-> "absent", swift |-> "skipped", docker |-> d, errStdout |-> "unread"] :
          d \in {"ok", "raises"} }
    \cup { [creds |-> "present", swift |-> "raises", docker |-> "skipped", errStdout |-> "unread"] }
    \cup { [creds |-> "present", swift |-> "ok", docker |-> d, errStdout |-> "unread"] :
               d \in {"ok", "raises"} }

Loading == [creds |-> "loading", swift |-> "loading", docker |-> "loading", errStdout |-> "unread"]
Serving == boot # Loading

ModuleInit ==
    /\ boot = Loading
    /\ \E b \in BootCases :
         /\ boot' = b
         /\ swift_conn' = StartupHandles(b.creds, b.swift, b.docker).swift
         /\ docker_client' = StartupHandles(b.creds, b.swift, b.docker).docker
    /\ UNCHANGED <<store, uuids, dirOwner, files, req, lastUpload, uploaded, lastList>>

\* ------------------------------------------------------------------ /run
\* acq, fetch, engine, rm: how mkdtemp, the download, containers.run and rmtree
\* ended for the request; run, exec, mount: what the sandbox did, on which file
\* and directory; trace: the stages the request went through.
Idle == [pc |-> "idle", key |-> MissingKey, temp_dir |-> 0, body |-> NoFile,
         acq |-> "none", fetch |-> "none", engine |-> "none", run |-> "none",
         rm |-> "none", exec |-> NoFile,
         mount |-> 0, resp |-> NoResp, trace |-> <<>>]

\* The guard left out.
RunGuardFails_Never == FALSE

\* A guard that looks at the engine handle alone.
RunGuardFails_DockerOnly == docker_client = None

\* Line 134: the handler answers 503 when either handle is missing.
RunGuardFails == swift_conn = None \/ docker_client = None

\* A directory name drawn without looking at the directories that exist.
MkdtempNames_AnyName == Names

\* The names some request has been given so far.
UsedNames == { req[i].temp_dir : i \in Inv } \ {0}

\* Line 149: tempfile.mkdtemp makes a directory that did not exist; the names
\* it can return are the ones no existing directory has.  Names never given out
\* before are interchangeable, so of those only the first is drawn.
MkdtempNames ==
    { n \in Names : /\ dirOwner[n] = 0
                    /\ n \in UsedNames \/ \A m \in Names : m < n => m \in UsedNames }

\* The failed download answered before the try/finally is entered.
StageAfter_SkipCleanup(stage, ok) ==
    CASE stage = "fetch"   -> IF ok THEN "stage" ELSE "done"
      [] stage = "stage"   -> IF ok THEN "run" ELSE "done"
      [] stage = "run"     -> "cleanup"
      [] stage = "cleanup" -> "done"

\* The directory removed as soon as the download returned, before the run.
StageAfter_CleanupBeforeRun(stage, ok) ==
    CASE stage = "fetch"   -> IF ok THEN "stage" ELSE "cleanup"
      [] stage = "stage"   -> "cleanup"
      [] stage = "cleanup" -> IF ok THEN "run" ELSE "done"
      [] stage = "run"     -> "done"

\* A failed download parked for a retry that nothing schedules.
StageAfter_ParksFailedFetch(stage, ok) ==
    CASE stage = "fetch"   -> IF ok THEN "stage" ELSE "retry"
      [] stage = "stage"   -> IF ok THEN "run" ELSE "cleanup"
      [] stage = "run"     -> "cleanup"
      [] stage = "cleanup" -> "done"

\* The control flow of the try/finally of lines 153-208: the stage that follows
\* `stage` when it ended well (ok) or not.
StageAfter(stage, ok) ==
    CASE stage = "fetch"   -> IF ok THEN "stage" ELSE "cleanup"
      [] stage = "stage"   -> IF ok THEN "run" ELSE "cleanup"
      [] stage = "run"     -> "cleanup"
      [] stage = "cleanup" -> "done"

\* Lines 133-151: the guard, the request's KEY and the temporary directory.
\* Requests are numbered in the order in which they arrive.
Accept(i) ==
    /\ Serving
    /\ req[i].pc = "idle"
    /\ \A j \in Inv : j < i => req[j].pc # "idle"
    /\ \E k \in (DOMAIN store) \cup {MissingKey} :
         \/ /\ RunGuardFails
            /\ req' = [req EXCEPT ![i] = [@ EXCEPT !.pc = "done", !.key = k,
                                                   !.resp = RespNotInitialized]]
            /\ UNCHANGED <<dirOwner, files>>
         \/ /\ ~RunGuardFails
            /\ \/ \E d \in MkdtempNames :
                    /\ dirOwner' = [dirOwner EXCEPT ![d] = i]
                    /\ files' = [files EXCEPT ![d] = NoFile]
                    /\ req' = [req EXCEPT ![i] = [@ EXCEPT !.pc = "fetch", !.key = k,
                                  !.temp_dir = d, !.acq = "ok",
                                  !.trace = Append(@, "acquire")]]
               \/ \* mkdtemp raises OSError
                  /\ req' = [req EXCEPT ![i] = [@ EXCEPT !.pc = "done", !.key = k,
                                                         !.acq = "oserror",
                                                         !.resp = RespUnhandled]]
                  /\ UNCHANGED <<dirOwner, files>>
    /\ UNCHANGED <<boot, swift_conn, docker_client, store, uuids, lastUpload, uploaded, lastList>>

\* ------------------------------------------------------------------ download_code
\* Lines 67-82: what download_code returns for each way swift_conn.get_object
\* and the write of the file can end.  "ok": the object was read and written;
\* "not_found": ClientException with http_status 404; "transient": any other
\* ClientException; "unexpected": another exception; "write_error": open() or
\* write() raised.  Every failure is logged and answered with False.
DownloadReturns(outcome) == outcome = "ok"

\* swift_conn.get_object (line 69) on the store as it is now.
GetObjectOutcomes(k) ==
    (IF k \in DOMAIN store THEN {"ok"} ELSE {"not_found"}) \cup {"transient", "unexpected"}

\* Lines 63-69: the guard of download_code and the read of the object.
GetObject(i) ==
    /\ req[i].pc = "fetch"
    /\ \/ /\ swift_conn = None
          /\ req' = [req EXCEPT ![i] = [@ EXCEPT !.pc = StageAfter("fetch", FALSE),
                        !.fetch = "connection_error",
                        !.resp = RespConnectionError("Swift client is not initialized."),
                        !.trace = Append(@, "fetch")]]
       \/ /\ swift_conn # None
          /\ \E o \in GetObjectOutcomes(req[i].key) :
               req' = [req EXCEPT ![i] = [@ EXCEPT
                        !.pc = StageAfter("fetch", DownloadReturns(o)),
                        !.fetch = o,
                        !.body = IF o = "ok" THEN store[req[i].key] ELSE NoFile,
                        !.resp = IF DownloadReturns(o) THEN NoResp ELSE RespDownloadFailed,
                        !.trace = Append(@, "fetch")]]
    /\ UNCHANGED <<boot, swift_conn, docker_client, store, uuids, dirOwner, files,
                   lastUpload, uploaded, lastList>>

\* The object written to one fixed directory, whatever the request.
LocalCodeDir_Shared(i) == 1

\* Line 150: the file the object is written to, inside the request's directory.
LocalCodeDir(i) == req[i].temp_dir

\* Lines 70-73 and 80-82: the object is written to <temp_dir>/script.py; a
\* failed write leaves no file or an incomplete one.
WriteFile(i) ==
    /\ req[i].pc = "stage"
    /\ \/ /\ files' = [files EXCEPT ![LocalCodeDir(i)] = req[i].body]
          /\ req' = [req EXCEPT ![i] = [@ EXCEPT !.pc = StageAfter("stage", DownloadReturns("ok")),
                        !.trace = Append(@, "stage")]]
       \/ /\ \E left \in {NoFile, Partial} :
               files' = [files EXCEPT ![LocalCodeDir(i)] = left]
          /\ req' = [req EXCEPT ![i] = [@ EXCEPT
                        !.pc = StageAfter("stage", DownloadReturns("write_error")),
                        !.fetch = "write_error",
                        !.resp = RespDownloadFailed,
                        !.trace = Append(@, "stage")]]
    /\ UNCHANGED <<boot, swift_conn, docker_client, store, uuids, dirOwner,
                   lastUpload, uploaded, lastList>>

\* ------------------------------------------------------------------ run_in_container
\* What run_in_container hands back: the triple (stdout, stderr, error) of
\* lines 112, 116-120, 123, 126, 129, or an exception that leaves it.
Returned(so, se, er) == [raised |-> "", stdout |-> so, stderr |-> se, error |-> er]
Raised(cls) == [raised |-> cls, stdout |-> <<>>, stderr |-> <<>>, error |-> None]

\* Lines 109-112: the logs of a container that exited 0.  containers.run was
\* asked for stdout and stderr together, so `logs` holds both streams.
OnExitZero(logs) ==
    IF DecodeOk(logs)
    THEN Returned(Decode(logs), <<>>, None)
    ELSE \* UnicodeDecodeError inside the try: the handler of line 127
         Returned(<<>>, <<"Unexpected container run error">>, "UnicodeDecodeError")

\* Lines 114-120: a container that exited non-zero.  The engine's
\* ContainerError carries the container's stderr; hasStdout says whether the
\* exception object has a stdout attribute at all.  An exception raised here,
\* inside the handler, leaves run_in_container.
OnContainerError(a, hasStdout) ==
    IF ~hasStdout THEN Raised("AttributeError")
    ELSE IF ~DecodeOk(a.out) \/ ~DecodeOk(a.err) THEN Raised("UnicodeDecodeError")
    ELSE Returned(IF a.out # <<>> THEN Decode(a.out) ELSE <<>>,
                  IF a.err # <<>> THEN Decode(a.err) ELSE <<"ContainerError">>,
                  "ContainerError")

\* Lines 98-129.  engine: how docker_client.containers.run ends; a: the
\* script.py the container finds at the mount; stderrFirst: the order in which
\* the engine's log holds the two streams.
RunInContainer(engine, a, stderrFirst, hasStdout) ==
    CASE engine = "image_not_found" ->
           Returned(<<>>, <<"Docker image not found">>, "ImageNotFound")
      [] engine = "api_error" ->
           Returned(<<>>, <<"Docker API error">>, "APIError")
      [] engine = "error" ->
           Returned(<<>>, <<"Unexpected container run error">>, "Exception")
      [] engine = "ran" /\ a.exit = 0 ->
           OnExitZero(IF stderrFirst THEN a.err \o a.out ELSE a.out \o a.err)
      [] engine = "ran" /\ a.exit # 0 ->
           OnContainerError(a, hasStdout)

\* Lines 164-199: the response run_function builds from what run_in_container
\* handed back.
RunResponse(r) ==
    IF r.raised # "" THEN RespInternal(r.raised)
    ELSE IF r.error # None THEN RespExecFailed(r.error, r.stdout, r.stderr)
    ELSE RespSuccess(r.stdout, r.stderr)

EngineOutcomes == {"ran", "image_not_found", "api_error", "error"}

\* Line 117: what the handler of a ContainerError finds when it reads
\* e.stdout: the attribute is there or not, as the library has it; a run that
\* does not reach the handler reads nothing.
ErrStdoutCases(e, a) ==
    IF e = "ran" /\ a.exit # 0 /\ boot.errStdout = "unread"
    THEN {"present", "absent"}
    ELSE {boot.errStdout}

\* Every sandbox mounted on one fixed directory.
MountDir_Fixed(i) == 1

\* Lines 89 and 165: the directory mounted at /app is the request's temp_dir.
MountDir(i) == req[i].temp_dir

\* Lines 164-199: run_in_container on the request's directory and the response.
Run(i) ==
    /\ req[i].pc = "run"
    /\ \/ /\ docker_client = None
          /\ req' = [req EXCEPT ![i] = [@ EXCEPT !.pc = StageAfter("run", FALSE),
                        !.run = "connection_error",
                        !.resp = RespConnectionError("Docker client is not initialized."),
                        !.trace = Append(@, "run")]]
          /\ boot' = boot
       \/ /\ docker_client # None
          /\ \E e \in EngineOutcomes, stderrFirst \in BOOLEAN :
             \E h \in ErrStdoutCases(e, files[MountDir(i)]) :
               LET a == files[MountDir(i)]
                   r == RunInContainer(e, a, stderrFirst, h = "present")
               IN /\ boot' = [boot EXCEPT !.errStdout = h]
                  /\ req' = [req EXCEPT ![i] = [@ EXCEPT
                            !.pc = StageAfter("run", r.raised = "" /\ r.error = None),
                            !.run = IF e # "ran" THEN e
                                    ELSE IF a.exit = 0 THEN "exit_zero" ELSE "exit_nonzero",
                            !.exec = IF e = "ran" THEN a ELSE NoFile,
                            !.engine = e,
                            !.mount = MountDir(i),
                            !.resp = RunResponse(r),
                            !.trace = Append(@, "run")]]
    /\ UNCHANGED <<swift_conn, docker_client, store, uuids, dirOwner, files,
                   lastUpload, uploaded, lastList>>

\* ------------------------------------------------------------------ finally
\* An existence test on a path that is never there.
TempDirExists_Never(i) == FALSE

\* Line 201: os.path.exists(temp_dir).
TempDirExists(i) == dirOwner[req[i].temp_dir] # 0

\* A failed removal answered with an error of its own.
RespAfterCleanup_Reports(r, removed) == IF removed THEN r ELSE RespInternal("OSError")

\* Lines 200-208: the finally clause has no return and its except only logs,
\* so the handler returns the response chosen before, whether the removal
\* worked or not.
RespAfterCleanup(r, removed) == r

\* Lines 200-208: the directory is removed if it exists; an exception of
\* shutil.rmtree is logged and dropped, and the directory stays.
Cleanup(i) ==
    /\ req[i].pc = "cleanup"
    /\ IF TempDirExists(i)
       THEN \/ /\ dirOwner' = [dirOwner EXCEPT ![req[i].temp_dir] = 0]
               /\ files' = [files EXCEPT ![req[i].temp_dir] = NoFile]
               /\ req' = [req EXCEPT ![i] = [@ EXCEPT !.pc = StageAfter("cleanup", TRUE),
                             !.rm = "removed", !.resp = RespAfterCleanup(@, TRUE),
                             !.trace = Append(@, "cleanup")]]
            \/ /\ UNCHANGED <<dirOwner, files>>
               /\ req' = [req EXCEPT ![i] = [@ EXCEPT !.pc = StageAfter("cleanup", FALSE),
                             !.rm = "failed", !.resp = RespAfterCleanup(@, FALSE),
                             !.trace = Append(@, "cleanup")]]
       ELSE /\ UNCHANGED <<dirOwner, files>>
            /\ req' = [req EXCEPT ![i] = [@ EXCEPT !.pc = StageAfter("cleanup", TRUE),
                          !.rm = "absent"]]
    /\ UNCHANGED <<boot, swift_conn, docker_client, store, uuids, lastUpload, uploaded, lastList>>

\* ------------------------------------------------------------------ /upload
\* A store guard that looks at the engine handle instead.
StoreGuardFails_DockerOnly == docker_client = None

\* Line 211 and line 265: the guard of the two store handlers.
StoreGuardFails == swift_conn = None

\* Line 227: only names ending in ".py" are let through.
AllowedFilename(f) == EndsWith(f, DotPy)

\* The filename used as the key, without the uuid.
ObjectKey_FilenameOnly(u, f) == <<0, f>>

\* Line 231: f"{uuid.uuid4().hex}_{file.filename}".  uuid4 is modelled as a
\* value never generated before (the u-th one).
ObjectKey(u, f) == <<u, f>>

DEFAULT_CONTAINER_NAME == "faas-code"

UploadResp(hf, f, b, st, k, c) ==
    [hasFile |-> hf, filename |-> f, content |-> b, status |-> st, key |-> k, container |-> c]

\* Lines 209-262.  hasFile: the request has a "file" part; f: its declared
\* filename; content: its bytes; putOk: whether swift_conn.put_object returns.
Upload ==
    /\ Serving
    /\ \E hasFile \in BOOLEAN, f \in Filenames :
         /\ ~hasFile => f = <<>>
         /\ \/ /\ StoreGuardFails
               /\ lastUpload' = UploadResp(hasFile, f, NoFile, 503, MissingKey, "")
               /\ UNCHANGED <<store, uuids, uploaded>>
            \/ /\ ~StoreGuardFails
               /\ ~hasFile \/ f = <<>> \/ ~AllowedFilename(f)
               /\ lastUpload' = UploadResp(hasFile, f, NoFile, 400, MissingKey, "")
               /\ UNCHANGED <<store, uuids, uploaded>>
            \/ /\ ~StoreGuardFails
               /\ hasFile /\ f # <<>> /\ AllowedFilename(f)
               /\ uuids < MaxUploads
               /\ uuids' = uuids + 1
               /\ \E content \in Artifacts, putOk \in BOOLEAN :
                    LET object_key == ObjectKey(uuids + 1, f) IN
                    IF putOk
                    THEN /\ store' = (object_key :> content) @@ store
                         /\ lastUpload' = UploadResp(hasFile, f, content, 201, object_key,
                                                     DEFAULT_CONTAINER_NAME)
                         /\ uploaded' = Append(uploaded, object_key)
                    ELSE /\ store' = store
                         /\ lastUpload' = UploadResp(hasFile, f, content, 500, MissingKey, "")
                         /\ uploaded' = uploaded
    /\ UNCHANGED <<boot, swift_conn, docker_client, dirOwner, files, req, lastList>>

\* ------------------------------------------------------------------ /list-objects
\* Lines 263-274.
ListObjects ==
    /\ Serving
    /\ \/ /\ StoreGuardFails
          /\ lastList' = [status |-> 503, keys |-> {}]
       \/ /\ ~StoreGuardFails
          /\ \/ lastList' = [status |-> 200, keys |-> DOMAIN store]
             \/ lastList' = [status |-> 500, keys |-> {}]
    /\ UNCHANGED <<boot, swift_conn, docker_client, store, uuids, dirOwner, files, req,
                   lastUpload, uploaded>>

\* ------------------------------------------------------------------ specification
Init ==
    /\ boot = Loading
    /\ swift_conn = None
    /\ docker_client = None
    /\ store \in StoreCases
    /\ uuids = 0
    /\ dirOwner = [n \in Names |-> 0]
    /\ files = [n \in Names |-> NoFile]
    /\ req = [i \in Inv |-> Idle]
    /\ lastUpload = UploadResp(FALSE, <<>>, NoFile, 0, MissingKey, "")
    /\ uploaded = <<>>
    /\ lastList = [status |-> 0, keys |-> {}]

\* The invocation pipeline: start-up, then NInv concurrent /run requests
\* against the store as it is.
Next ==
    \/ ModuleInit
    \/ \E i \in Inv : Accept(i)
    \/ \E i \in Inv : GetObject(i)
    \/ \E i \in Inv : WriteFile(i)
    \/ \E i \in Inv : Run(i)
    \/ \E i \in Inv : Cleanup(i)

Spec == Init /\ [][Next]_vars

\* The whole server: start-up, then uploads and listings next to one /run
\* request.
NextServer ==
    \/ ModuleInit
    \/ Upload
    \/ ListObjects
    \/ Accept(1)
    \/ GetObject(1)
    \/ WriteFile(1)
    \/ Run(1)
    \/ Cleanup(1)

SpecServer == Init /\ [][NextServer]_vars

\* The steps of the handler of request i once it has its directory.
RequestStep(i) == GetObject(i) \/ WriteFile(i) \/ Run(i) \/ Cleanup(i)

\* The pipeline with the calls of the handlers returning: get_object, the
\* write, containers.run and rmtree each return or raise, and the server keeps
\* serving, so as long as some request can take a step, one is taken.  Nothing
\* is assumed about the arrival of requests.
SpecLive == Init /\ [][Next]_vars /\ WF_vars(\E i \in Inv : RequestStep(i))

\* The same client sending /run again: a request arrives only when every
\* earlier one was answered.
AcceptRerun(i) == (\A j \in Inv : j < i => req[j].pc = "done") /\ Accept(i)

NextRerun ==
    \/ ModuleInit
    \/ \E i \in Inv : AcceptRerun(i)
    \/ \E i \in Inv : GetObject(i)
    \/ \E i \in Inv : WriteFile(i)
    \/ \E i \in Inv : Run(i)
    \/ \E i \in Inv : Cleanup(i)

SpecRerun == Init /\ [][NextRerun]_vars
\* ------------------------------------------------------------------ properties
Done(i) == req[i].pc = "done"
Acquired(i) == req[i].temp_dir # 0
\* The directory request i made is still on disk.
WorkspaceExists(i) == Acquired(i) /\ dirOwner[req[i].temp_dir] = i
\* Request i holds its directory: made, and the finally clause not yet run.
Holding(i) == req[i].pc \in {"fetch", "stage", "run", "cleanup"}
Count(seq, e) == Cardinality({k \in DOMAIN seq : seq[k] = e})
Has(seq, e) == \E k \in DOMAIN seq : seq[k] = e
\* The kind of failure request i met, in the terms of the error taxonomy: that
\* of the download, else that of the run.
FailKind(i) ==
    CASE req[i].fetch = "not_found" -> "NotFound"
      [] req[i].fetch = "transient" -> "TransientStoreError"
      [] req[i].fetch \in {"unexpected", "write_error"} -> "UnexpectedError"
      [] req[i].fetch = "connection_error" \/ req[i].run = "connection_error" -> "ServiceUnavailable"
      [] req[i].run = "image_not_found" -> "ImageNotFound"
      [] req[i].run \in {"exit_nonzero", "api_error"} -> "SandboxFailure"
      [] OTHER -> "UnexpectedError"

C2_DistinctWorkspaces ==
    \A i, j \in Inv :
        i # j /\ Holding(i) /\ (Holding(j) \/ (Done(j) /\ req[j].rm = "failed"))
            => req[i].temp_dir # req[j].temp_dir

\* Two requests hold their directories at the same time.
C2_Witness ==
    \E i, j \in Inv : i # j /\ req[i].pc = "run" /\ req[j].pc = "stage"
                      /\ req[i].temp_dir # req[j].temp_dir

\* C3 (as stated): a request for a key the store does not hold never runs the
\* sandbox and ends with a response that says NotFound: a response no request
\* for the same key gets when its download failed for another reason.
C3_NotFoundClassified ==
    \A i \in Inv :
        Done(i) /\ req[i].fetch = "not_found" =>
            /\ ~Has(req[i].trace, "run")
            /\ req[i].resp.status # 200
            /\ \A j \in Inv :
                 Done(j) /\ req[j].key = req[i].key
                 /\ req[j].fetch \in {"transient", "unexpected", "write_error"}
                     => req[j].resp # req[i].resp

\* C4 (as stated): a run that exits non-zero ends in the "Execution failed"
\* response of a container error with the stdout and stderr the script wrote; a
\* run that exits zero ends in the 200 response with the stdout and stderr the
\* script wrote; the response is 200 exactly when the script ran and exited zero.
C4_RunOutcomeCarried ==
    \A i \in Inv :
        Done(i) /\ Acquired(i) =>
            /\ req[i].run = "exit_nonzero" =>
                 /\ req[i].resp.status = 500
                 /\ req[i].resp.error = "Execution failed"
                 /\ req[i].resp.detail = "ContainerError"
                 /\ req[i].resp.hasStreams
                 /\ DecodeOk(req[i].exec.out) => req[i].resp.stdout = Decode(req[i].exec.out)
                 /\ DecodeOk(req[i].exec.err) => req[i].resp.stderr = Decode(req[i].exec.err)
            /\ req[i].run = "exit_zero" =>
                 /\ req[i].resp.status = 200
                 /\ req[i].resp.hasStreams
                 /\ DecodeOk(req[i].exec.out) => req[i].resp.stdout = Decode(req[i].exec.out)
                 /\ DecodeOk(req[i].exec.err) => req[i].resp.stderr = Decode(req[i].exec.err)
            /\ req[i].resp.status = 200 <=> req[i].run = "exit_zero"

\* C5: a /run request that arrives while the store handle or the engine handle
\* is None is answered 503 "not initialized" at once: no directory is made, and
\* neither the download nor the run is attempted.
C5_UnavailableBeforeWorkspace ==
    \A i \in Inv :
        req[i].pc # "idle" /\ (swift_conn = None \/ docker_client = None) =>
            /\ Done(i)
            /\ req[i].resp = RespNotInitialized
            /\ ~Acquired(i)
            /\ req[i].trace = <<>>
            /\ \A d \in Names : dirOwner[d] # i

\* A request answered 503 with the engine handle missing.
C5_Witness ==
    \E i \in Inv : Done(i) /\ docker_client = None /\ req[i].resp.status = 503

\* The place of each stage in the order of one request.
Rank(e) ==
    CASE e = "acquire" -> 1 [] e = "fetch" -> 2 [] e = "stage" -> 3
      [] e = "run" -> 4 [] e = "cleanup" -> 5

\* C6: within one request the stages happen in the order acquire, fetch
\* (download and write), run, cleanup: the run is attempted only after the
\* download returned, and the cleanup comes last, after the download and, when
\* there was one, the run.
C6_StageOrder ==
    \A i \in Inv :
        LET t == req[i].trace IN
        /\ \A a, b \in DOMAIN t : a < b => Rank(t[a]) < Rank(t[b])
        /\ t # <<>> => t[1] = "acquire"
        /\ req[i].pc = "run" \/ Has(t, "run") => Has(t, "fetch") /\ Has(t, "stage")
        /\ Done(i) /\ Acquired(i) => t[Len(t)] = "cleanup" /\ Has(t, "fetch")

\* One request has gone through all four stages while another, accepted
\* too, is still in an earlier one.
C6_Witness ==
    \E i, j \in Inv :
        /\ Done(i) /\ req[i].trace = <<"acquire", "fetch", "stage", "run", "cleanup">>
        /\ req[j].pc = "stage"

\* C7: a request that made a directory has called the removal of that
\* directory exactly once when it reaches its terminal state, on every path.
C7_CleanupExactlyOnce ==
    \A i \in Inv :
        /\ Count(req[i].trace, "cleanup") <= 1
        /\ Done(i) /\ Acquired(i) => Count(req[i].trace, "cleanup") = 1

\* Requests that ended after a failed download, and after an exception that
\* left run_in_container, each with one cleanup.
C7_Witness ==
    \E i, j \in Inv :
        /\ Done(i) /\ req[i].fetch = "transient" /\ Count(req[i].trace, "cleanup") = 1
        /\ Done(j) /\ req[j].resp.error = "An internal server error occurred"
        /\ Count(req[j].trace, "cleanup") = 1

\* C8 (as stated): every failure after the directory was made is answered with
\* a response that has an error text, that no request for the same key gets for
\* another kind of failure, and that carries the stdout and stderr members
\* whenever the script ran.
C8_FailureClassified ==
    \A i \in Inv :
        Done(i) /\ Acquired(i) /\ req[i].resp.status # 200 =>
            /\ req[i].resp.error # ""
            /\ req[i].run \in {"exit_zero", "exit_nonzero"} => req[i].resp.hasStreams
            /\ \A j \in Inv :
                 Done(j) /\ Acquired(j) /\ req[j].resp.status # 200
                 /\ req[j].key = req[i].key /\ FailKind(j) # FailKind(i)
                     => req[j].resp # req[i].resp

\* C9: after start-up, missing credentials or a failed connection leave the
\* handle concerned None, and with a handle None every trigger that needs it
\* answers 503: /run needs both, /upload and /list-objects need the store.
C9_UninitializedMeansUnavailable ==
    Serving =>
        /\ boot.creds = "absent" \/ boot.swift = "raises" => swift_conn = None
        /\ boot.docker = "raises" => docker_client = None
        /\ swift_conn = None =>
             /\ lastUpload.status \in {0, 503}
             /\ lastList.status \in {0, 503}
             /\ store \in StoreCases
        /\ swift_conn = None \/ docker_client = None =>
             \A i \in Inv : req[i].pc # "idle" => Done(i) /\ req[i].resp.status = 503

\* With the credentials absent and the engine reachable, all three triggers
\* have answered 503.
C9_Witness ==
    /\ boot.creds = "absent" /\ boot.docker = "ok"
    /\ lastUpload.status = 503 /\ lastList.status = 503
    /\ Done(1) /\ req[1].resp.status = 503

\* C10: an upload is answered 201 only for a file part whose filename ends in
\* ".py"; any other upload leaves the store as it was; a 201 upload has its
\* bytes in the store under the key it returns, with the container name, and
\* no two 201 responses returned the same key.
C10_UploadKeysFresh ==
    /\ [](/\ lastUpload.status # 0 /\ ~(lastUpload.hasFile /\ EndsWith(lastUpload.filename, DotPy))
               => lastUpload.status \in {400, 503}
          /\ lastUpload.status = 201 =>
               /\ lastUpload.key \in DOMAIN store
               /\ store[lastUpload.key] = lastUpload.content
               /\ lastUpload.container = DEFAULT_CONTAINER_NAME
               /\ lastUpload.key[2] = lastUpload.filename
          /\ \A a, b \in DOMAIN uploaded : a # b => uploaded[a] # uploaded[b]
          /\ \A a \in DOMAIN uploaded : uploaded[a] \in DOMAIN store /\ uploaded[a] \notin {OldKey1, OldKey2})
    /\ [][lastUpload'.status # 201 \/ lastUpload' = lastUpload => store' = store]_vars

\* Two uploads of the same filename were answered 201, and an upload of another
\* filename was refused after them.
C10_Witness ==
    /\ Len(uploaded) = 2
    /\ uploaded[1][2] = uploaded[2][2]
    /\ lastUpload.status = 400 /\ lastUpload.hasFile /\ lastUpload.filename # <<>>

\* What a response says about how the request ended: status, error text and
\* the class of exception named in it; not the output of the script.
Classification(i) == <<req[i].resp.status, req[i].resp.error, req[i].resp.detail>>
\* The store, the filesystem and the engine answered requests i and j alike.
SameAnswers(i, j) ==
    /\ req[i].acq = req[j].acq
    /\ req[i].fetch = req[j].fetch
    /\ req[i].engine = req[j].engine

\* C11: when /run is sent again for the same key after the first request was
\* answered, the store unchanged, and mkdtemp, the store and the engine answer
\* the second request as they answered the first, the second response has the
\* classification of the first (status, error, class of exception), and the
\* sandbox ran the same bytes: neither a directory the first request left
\* behind nor its file nor the handles change it.
C11_RerunSameClassification ==
    \A i, j \in Inv :
        i < j /\ Done(i) /\ Done(j) /\ req[i].key = req[j].key /\ SameAnswers(i, j) =>
            /\ Classification(i) = Classification(j)
            /\ req[i].exec = req[j].exec
            /\ req[i].run = req[j].run

\* A key was run a second time after its first run ended with its directory
\* left on disk (rmtree raised), and both runs were answered 200.
C11_Witness ==
    \E i, j \in Inv :
        /\ i < j /\ Done(i) /\ Done(j) /\ req[i].key = req[j].key /\ SameAnswers(i, j)
        /\ req[i].rm = "failed" /\ WorkspaceExists(i)
        /\ req[i].resp.status = 200 /\ req[j].resp.status = 200
        /\ req[j].temp_dir # req[i].temp_dir

\* Request i met a failure in its download or its run.
StageFailed(i) ==
    Acquired(i) /\ (req[i].fetch \notin {"none", "ok"} \/ req[i].run \notin {"none", "exit_zero"})

\* C12 (as stated): in one request the download is called at most once, the
\* file written at most once and the sandbox run at most once; and a request
\* whose download or run failed ends with a response other than 200 whose
\* classification is that of one kind of the taxonomy: no request for the same
\* key gets it for a failure of another kind.
C12_NoRetryFailureClassified ==
    \A i \in Inv :
        /\ Count(req[i].trace, "fetch") <= 1
        /\ Count(req[i].trace, "stage") <= 1
        /\ Count(req[i].trace, "run") <= 1
        /\ Done(i) /\ StageFailed(i) =>
              /\ req[i].resp.status # 200
              /\ \A j \in Inv :
                   Done(j) /\ StageFailed(j) /\ req[j].key = req[i].key
                   /\ FailKind(j) # FailKind(i)
                       => Classification(j) # Classification(i)

\* C13 (as stated): a request whose tempfile.mkdtemp raised ends with a
\* response made by the handler (a classified failure, status other than 200,
\* not the exception leaving the handler), and neither the download nor the
\* run was attempted.
C13_AcquireFailureClassified ==
    \A i \in Inv :
        req[i].acq = "oserror" =>
            /\ Done(i)
            /\ req[i].resp.status \notin {0, 200}
            /\ req[i].resp.error # "unhandled"
            /\ ~Has(req[i].trace, "fetch") /\ ~Has(req[i].trace, "run")
            /\ req[i].fetch = "none" /\ req[i].run = "none"

\* C14: with requests in flight at the same time, whatever the interleaving:
\* a file on disk lies in a directory that belongs to a request and holds bytes
\* of that request's key (all of them or a part), a request that is about to
\* run has its own key's bytes in its own directory, every sandbox is mounted
\* on the directory of its own request and runs that request's bytes, a request
\* in flight still has its directory, and a step that is not a step of a
\* request in flight (the cleanup of another one included) changes neither
\* that request's directory nor the file in it.
C14_WorkspacesIsolated ==
    /\ [](\A d \in Names :
            files[d] # NoFile =>
                /\ dirOwner[d] \in Inv
                /\ req[dirOwner[d]].temp_dir = d
                /\ req[dirOwner[d]].key \in DOMAIN store
                /\ files[d] \in {Partial, store[req[dirOwner[d]].key]})
    /\ [](\A i \in Inv :
            /\ Holding(i) => WorkspaceExists(i)
            /\ req[i].pc = "run" => files[req[i].temp_dir] = store[req[i].key]
            /\ Has(req[i].trace, "run") =>
                 /\ req[i].mount = req[i].temp_dir
                 /\ req[i].engine = "ran" => req[i].exec = store[req[i].key])
    /\ [][\A i \in Inv :
            Holding(i) /\ req'[i] = req[i] =>
                /\ dirOwner'[req[i].temp_dir] = dirOwner[req[i].temp_dir]
                /\ files'[req[i].temp_dir] = files[req[i].temp_dir]]_vars

\* Two requests for different keys are in flight together: one has run its own
\* bytes and its directory was just removed, the other still has its own bytes
\* staged in its own directory.
C14_Witness ==
    \E i, j \in Inv :
        /\ i # j /\ req[i].key # req[j].key
        /\ Done(i) /\ req[i].engine = "ran" /\ req[i].rm = "removed"
        /\ req[i].exec = store[req[i].key]
        /\ req[j].pc = "run" /\ files[req[j].temp_dir] = store[req[j].key]
        /\ store[req[i].key] # store[req[j].key]

\* The download failures the error taxonomy tells apart.
FetchFailures == {"not_found", "transient", "write_error"}

\* C15 (as stated): a request whose download failed (missing key, store error,
\* error writing the file) never runs the sandbox, ends with a failure response
\* that carries that outcome (no request for the same key gets it for another
\* of these failures), and its cleanup is still executed, once; and the sandbox
\* is run only after the download returned the object and it was written to the
\* file in the request's own directory.
C15_FetchFailureSkipsRun ==
    \A i \in Inv :
        /\ req[i].fetch \in FetchFailures => ~Has(req[i].trace, "run") /\ req[i].run = "none"
        /\ Done(i) /\ req[i].fetch \in FetchFailures =>
              /\ req[i].resp.status # 200
              /\ Count(req[i].trace, "cleanup") = 1
              /\ \A j \in Inv :
                   Done(j) /\ req[j].key = req[i].key /\ req[j].fetch \in FetchFailures
                   /\ req[j].fetch # req[i].fetch
                       => Classification(j) # Classification(i)
        /\ req[i].pc = "run" =>
              /\ req[i].fetch = "ok"
              /\ req[i].body = store[req[i].key]
              /\ files[req[i].temp_dir] = req[i].body
        /\ Has(req[i].trace, "run") =>
              req[i].fetch = "ok" /\ Has(req[i].trace, "stage")

\* C16: provided every call of the handler returns, every request that was
\* accepted ends: from some point on no request is in flight, each is either
\* not yet sent or in its terminal state with one response, and once there
\* neither its state nor its response changes again; a request in flight can
\* always take its next step whatever the other requests are doing, so none
\* waits for another.
C16_EveryRequestEnds ==
    /\ <>[](\A i \in Inv : req[i].pc = "idle" \/ Done(i))
    /\ [](\A i \in Inv : Done(i) => req[i].resp # NoResp)
    /\ [](\A i \in Inv : Holding(i) => ENABLED RequestStep(i))
    /\ [](\A i \in Inv : req[i].pc = "idle" \/ Holding(i) \/ Done(i))
    /\ [][\A i \in Inv : Done(i) => req'[i] = req[i]]_vars

\* One request has ended with its response while another, accepted before it
\* ended, is still in flight.
C16_Witness ==
    \E i, j \in Inv :
        /\ i # j /\ Done(i) /\ Acquired(i) /\ req[i].resp.status = 200
        /\ req[j].pc = "fetch"

\* C17: once start-up is over, the store handle is set only if the engine
\* handle is set too; an exception of either constructor leaves both handles
\* None; and when the engine could not be initialized, /upload and
\* /list-objects answer 503 and the store is not touched.
C17_StoreOnlyWithEngine ==
    Serving =>
        /\ swift_conn # None => docker_client # None
        /\ boot.swift = "raises" \/ boot.docker = "raises" =>
             swift_conn = None /\ docker_client = None
        /\ boot.docker = "raises" =>
             /\ lastUpload.status \in {0, 503}
             /\ lastList.status \in {0, 503}
             /\ uploaded = <<>> /\ store \in StoreCases

\* The store connection was made, the engine could not be reached, and an
\* upload of a .py file and a listing were both answered 503.
C17_Witness ==
    /\ boot.creds = "present" /\ boot.swift = "ok" /\ boot.docker = "raises"
    /\ lastUpload.status = 503 /\ lastUpload.hasFile
    /\ EndsWith(lastUpload.filename, DotPy)
    /\ lastList.status = 503

\* C18: the step in which a request's rmtree is called, whether it raises or
\* not, leaves the response chosen before as it is and takes the request to
\* its terminal state; a request whose rmtree raised is in its terminal state
\* with that response, has called rmtree once, and its directory is still on
\* disk.
C18_RmtreeFailureSwallowed ==
    /\ [][\A i \in Inv :
            req[i].pc = "cleanup" /\ req'[i] # req[i] =>
                /\ req'[i].resp = req[i].resp
                /\ req'[i].pc = "done"]_vars
    /\ [](\A i \in Inv :
            req[i].rm = "failed" =>
                /\ Done(i)
                /\ req[i].resp # NoResp
                /\ req[i].resp.status = 200 <=> req[i].run = "exit_zero"
                /\ Count(req[i].trace, "cleanup") = 1
                /\ WorkspaceExists(i))

\* Two requests whose rmtree raised have ended, one answered 200 and one
\* answered with the download failure, and both directories are still there.
C18_Witness ==
    \E i, j \in Inv :
        /\ Done(i) /\ req[i].rm = "failed" /\ req[i].resp.status = 200
        /\ Done(j) /\ req[j].rm = "failed" /\ req[j].resp = RespDownloadFailed
        /\ WorkspaceExists(i) /\ WorkspaceExists(j)

\* C19: once start-up is over no step changes the store handle or the engine
\* handle; so a request that made its directory did so with both handles set
\* and finds them set in download_code and in run_in_container: no download
\* and no run ends with the ConnectionError of an uninitialized client, no
\* response is that of the except ConnectionError clause, and a 503 of /run is
\* the "not initialized" response of the guard, given before any directory was
\* made.
C19_HandlesFixedAfterStartup ==
    /\ [][Serving => swift_conn' = swift_conn /\ docker_client' = docker_client]_vars
    /\ [](\A i \in Inv :
            /\ Acquired(i) \/ Holding(i) => swift_conn # None /\ docker_client # None
            /\ req[i].fetch # "connection_error"
            /\ req[i].run # "connection_error"
            /\ req[i].resp.error # "ConnectionError"
            /\ req[i].resp.status = 503 =>
                 /\ req[i].resp = RespNotInitialized
                 /\ ~Acquired(i)
                 /\ req[i].trace = <<>>)

\* A request passed the guard, downloaded its object and called the engine,
\* which answered with an API error; both handles are set as they were.
C19_Witness ==
    \E i \in Inv :
        /\ Done(i) /\ Acquired(i)
        /\ req[i].fetch = "ok" /\ req[i].run = "api_error"
        /\ swift_conn = Handle /\ docker_client = Handle
====
